---- MODULE Spec2Model ----
(***************************************************************************)
(* Model of the crypto-arbitrage repository: the live engine               *)
(* (arbitrage_bot.py: init_exchanges, fetch_order_books, scanner, balance  *)
(* check, two-leg execution, order monitor, main loop, close_exchanges)    *)
(* and the replay engine (backtest.py: scanner, simulate_trade, backtest). *)
(*                                                                         *)
(* Python floats are modelled as exact rationals <<n, d>> (d > 0, reduced);*)
(* None is the empty tuple.  Zero-division raises, as it does in Python.   *)
(* Time is in whole seconds and advances only in asyncio.sleep.            *)
(***************************************************************************)
EXTENDS Integers, Sequences, FiniteSets, TLC

VARIABLES
    pc,             \* position of the running coroutine / harness
    cfg,            \* config.json values read at import time
    fees,           \* venue -> taker fee (exchanges[name]['fees']['taker'])
    order_books,    \* venue -> [bid, ask] of the current snapshot
    balances,       \* replay ledger: venue -> USD balance
    scan_result,    \* result of the scanner run by the scanner harness
    opportunities,  \* list returned by check_arbitrage_opportunities in main
    opp_idx,        \* index of the opportunity main's for loop is at
    run,            \* what was done for the current opportunity
    mon,            \* frame of the running monitor_order call
    feed,           \* statuses the venue reports to the standalone monitor
    tasks,          \* fetch_order_books: venue -> its fetch_order_book task
    exchanges,      \* venues of the dict init_exchanges returned
    conns,          \* venue -> state of the ccxt instance created for it
    exit_code,      \* exit code of the process, -1 while it runs
    cycle_log,      \* what main did in the current cycle, in order
    series,         \* df_merged: the synchronized rows the replay iterates
    row,            \* index of the row backtest is at
    trade_log,      \* trade_log of backtest
    last_trade,     \* the last simulate_trade call and what it returned
    base_balances,  \* replay ledger: venue -> BTC balance
    metrics         \* what the statistics after the replay gave

fetch_vars == <<tasks>>

proc_vars == <<exchanges, conns, exit_code>>

replay_vars == <<series, row, trade_log, last_trade, base_balances, metrics>>

vars == <<pc, cfg, fees, order_books, balances, scan_result, opportunities,
          opp_idx, run, mon, feed, tasks, exchanges, conns, exit_code,
          cycle_log, series, row, trade_log, last_trade, base_balances,
          metrics>>

-----------------------------------------------------------------------------
(* Exact arithmetic on rationals <<n, d>>.                                  *)

None == <<>>

Abs(x) == IF x < 0 THEN -x ELSE x

RECURSIVE GCD(_, _)
GCD(a, b) == IF b = 0 THEN a ELSE GCD(b, a % b)

Norm(n, d) ==
    IF n = 0 THEN <<0, 1>>
    ELSE LET s == IF d < 0 THEN -1 ELSE 1
             g == GCD(Abs(n), Abs(d))
         IN  <<(s * n) \div g, (s * d) \div g>>

Q(n) == <<n, 1>>

Frac(n, d) == Norm(n, d)

\* sums and comparisons go through the least common denominator, to keep the
\* intermediate products small
Add(a, b) ==
    LET g == GCD(a[2], b[2])
    IN  Norm(a[1] * (b[2] \div g) + b[1] * (a[2] \div g), (a[2] \div g) * b[2])

Sub(a, b) == Add(a, <<-b[1], b[2]>>)

\* cross-reduced before multiplying, to keep the intermediate products small
Mul(a, b) ==
    LET x == Norm(a[1], b[2])
        y == Norm(b[1], a[2])
    IN  Norm(x[1] * y[1], x[2] * y[2])

IsZero(a) == a[1] = 0

\* a / b for b # 0 (the callers model the ZeroDivisionError for b = 0)
Div(a, b) == Mul(a, Norm(b[2], b[1]))

Lt(a, b) ==
    LET g == GCD(a[2], b[2])
    IN  a[1] * (b[2] \div g) < b[1] * (a[2] \div g)

Le(a, b) == ~Lt(b, a)

Min2(a, b) == IF Lt(b, a) THEN b ELSE a

\* Python truthiness of a price: None and 0 are falsy
Truthy(p) == p # None /\ ~IsZero(p)

-----------------------------------------------------------------------------
(* Venues and the pair enumeration shared by both scanners.                 *)

\* the venues of exchanges_config, in the order of the file; the order is
\* also the sorted one, in which df_merged.columns.levels[0] lists them
VenueOrder == <<"binance", "bitstamp", "kraken">>

AllVenues == {VenueOrder[i] : i \in 1..Len(VenueOrder)}

\* the venues configured in the runs of the live engine and of the scanners
Venues == {VenueOrder[1], VenueOrder[3]}

\* list(order_books.keys()): the venues of the snapshot, in insertion order
ExchangeNames(books) == SelectSeq(VenueOrder, LAMBDA v : v \in DOMAIN books)

\* the (buy, sell) pairs in the order the nested for loops visit them
RECURSIVE PairsFrom(_, _, _)
PairsFrom(names, i, j) ==
    IF i > Len(names) THEN <<>>
    ELSE IF j > Len(names) THEN PairsFrom(names, i + 1, 1)
    ELSE IF names[i] = names[j] THEN PairsFrom(names, i, j + 1)
    ELSE <<(<<names[i], names[j]>>)>> \o PairsFrom(names, i, j + 1)

Pairs(books) == PairsFrom(ExchangeNames(books), 1, 1)

\* buy_price and sell_price and buy_price < sell_price
PairEligible(books, p) ==
    LET buy_price  == books[p[1]].ask
        sell_price == books[p[2]].bid
    IN  Truthy(buy_price) /\ Truthy(sell_price) /\ Lt(buy_price, sell_price)

-----------------------------------------------------------------------------
(* calculate_profit (identical in arbitrage_bot.py and backtest.py).        *)

BuyCost(buy_price, buy_fee, amount) ==
    Mul(Mul(buy_price, amount), Add(Q(1), buy_fee))

\* slip: the sell fee is added to the proceeds
M_SellRevenue(sell_price, sell_fee, amount) ==
    Mul(Mul(sell_price, amount), Add(Q(1), sell_fee))

SellRevenue(sell_price, sell_fee, amount) ==
    Mul(Mul(sell_price, amount), Sub(Q(1), sell_fee))

\* raises ZeroDivisionError exactly when buy_cost is zero
ProfitRaises(buy_price, buy_fee, amount) ==
    IsZero(BuyCost(buy_price, buy_fee, amount))

\* slip: the difference is taken the other way round
M_calculate_profit(buy_price, sell_price, buy_fee, sell_fee, amount) ==
    LET buy_cost     == BuyCost(buy_price, buy_fee, amount)
        sell_revenue == SellRevenue(sell_price, sell_fee, amount)
        profit       == Sub(buy_cost, sell_revenue)
    IN  [profit_percent |-> Mul(Div(profit, buy_cost), Q(100)),
         profit         |-> profit]

calculate_profit(buy_price, sell_price, buy_fee, sell_fee, amount) ==
    LET buy_cost     == BuyCost(buy_price, buy_fee, amount)
        sell_revenue == SellRevenue(sell_price, sell_fee, amount)
        profit       == Sub(sell_revenue, buy_cost)
    IN  [profit_percent |-> Mul(Div(profit, buy_cost), Q(100)),
         profit         |-> profit]

Opportunity(p, books, amount, pr) ==
    [buy_exchange   |-> p[1],
     sell_exchange  |-> p[2],
     buy_price      |-> books[p[1]].ask,
     sell_price     |-> books[p[2]].bid,
     profit_percent |-> pr.profit_percent,
     profit         |-> pr.profit,
     amount         |-> amount]

-----------------------------------------------------------------------------
(* Live scanner: arbitrage_bot.check_arbitrage_opportunities.               *)

\* amount = min(trade_amount, max_trade_amount)
LiveAmount(c) == Min2(c.trade_amount, c.max_trade_amount)

LivePairRaises(c, f, books, p) ==
    /\ PairEligible(books, p)
    /\ ProfitRaises(books[p[1]].ask, f[p[1]], LiveAmount(c))

\* the opportunities the live scanner appends for one pair (none or one)
LivePairOpps(c, f, books, p) ==
    IF ~PairEligible(books, p) THEN <<>>
    ELSE LET amount == LiveAmount(c)
             pr     == calculate_profit(books[p[1]].ask, books[p[2]].bid,
                                        f[p[1]], f[p[2]], amount)
         IN  IF Le(c.min_profit_percent, pr.profit_percent)
             THEN <<Opportunity(p, books, amount, pr)>>
             ELSE <<>>

RECURSIVE LiveOppsFrom(_, _, _, _, _)
LiveOppsFrom(c, f, books, ps, i) ==
    IF i > Len(ps) THEN <<>>
    ELSE LivePairOpps(c, f, books, ps[i]) \o LiveOppsFrom(c, f, books, ps, i + 1)

\* [raised: the call ended in ZeroDivisionError, opps: the list returned]
LiveScan(c, f, books) ==
    LET ps == Pairs(books)
    IN  IF \E i \in 1..Len(ps) : LivePairRaises(c, f, books, ps[i])
        THEN [raised |-> TRUE, opps |-> <<>>]
        ELSE [raised |-> FALSE, opps |-> LiveOppsFrom(c, f, books, ps, 1)]

-----------------------------------------------------------------------------
(* Replay scanner: backtest.check_arbitrage_opportunities.                  *)

\* balances[buy_ex]['USD'] / (buy_price * (1 + buy_fee))
MaxAmountUsd(f, books, bal, p) ==
    Div(bal[p[1]], Mul(books[p[1]].ask, Add(Q(1), f[p[1]])))

\* max_amount = min(trade_amount, max_trade_amount, max_amount_usd)
ReplayAmount(c, f, books, bal, p) ==
    Min2(Min2(c.trade_amount, c.max_trade_amount), MaxAmountUsd(f, books, bal, p))

\* the division of max_amount_usd raises when the fee-adjusted price is zero
ReplayPairRaises(c, f, books, bal, p) ==
    /\ PairEligible(books, p)
    /\ IsZero(Mul(books[p[1]].ask, Add(Q(1), f[p[1]])))

ReplayPairOpps(c, f, books, bal, p) ==
    IF ~PairEligible(books, p) THEN <<>>
    ELSE LET max_amount == ReplayAmount(c, f, books, bal, p)
         IN  IF ~Lt(Q(0), max_amount) THEN <<>>
             ELSE LET pr == calculate_profit(books[p[1]].ask, books[p[2]].bid,
                                             f[p[1]], f[p[2]], max_amount)
                  IN  IF Le(c.min_profit_percent, pr.profit_percent)
                      THEN <<Opportunity(p, books, max_amount, pr)>>
                      ELSE <<>>

RECURSIVE ReplayOppsFrom(_, _, _, _, _, _)
ReplayOppsFrom(c, f, books, bal, ps, i) ==
    IF i > Len(ps) THEN <<>>
    ELSE ReplayPairOpps(c, f, books, bal, ps[i])
             \o ReplayOppsFrom(c, f, books, bal, ps, i + 1)

ReplayScan(c, f, books, bal) ==
    LET ps == Pairs(books)
    IN  IF \E i \in 1..Len(ps) : ReplayPairRaises(c, f, books, bal, ps[i])
        THEN [raised |-> TRUE, opps |-> <<>>]
        ELSE [raised |-> FALSE, opps |-> ReplayOppsFrom(c, f, books, bal, ps, 1)]

-----------------------------------------------------------------------------
(* Inputs.                                                                  *)

Price(n) == Q(n)

\* top-of-book values a venue can report (fetch_order_book: a missing side
\* is None)
Books ==
    { [bid |-> None,       ask |-> None],
      [bid |-> Price(100), ask |-> None],
      [bid |-> Price(0),   ask |-> Price(0)],
      [bid |-> Price(99),  ask |-> Price(100)],
      [bid |-> Price(102), ask |-> Price(103)],
      [bid |-> Price(102), ask |-> Price(100)] }

FeeValues == {Q(0), Frac(1, 1000)}

\* config.json is only checked for the presence of its keys (load_config),
\* so trade sizes of any sign are configurations the program runs with
Amounts == {Q(-1), Q(0), Q(1)}

MinProfits == {Frac(1, 2), Q(2)}

Currencies == {"BTC", "USD"}

BalanceValues == {Q(0), Q(50), Q(1000)}

NoConfig == [trade_amount |-> Q(0), max_trade_amount |-> Q(0),
             min_profit_percent |-> Q(0), trade_currency |-> "USD"]

NoRun == [outcome |-> "none"]

NoMon == [leg |-> "none"]

NoFees == [v \in Venues |-> Q(0)]

NoBalances == [v \in Venues |-> Q(0)]

NoBooks == [v \in {} |-> None]

NoScan == [engine |-> "none", raised |-> FALSE, opps |-> <<>>]

NoTasks == [v \in {} |-> None]

NoConns == [v \in {} |-> "none"]

NoTrade == [called |-> FALSE]

\* the variables of the engines a run does not exercise
IdleFetch == tasks = NoTasks

IdleProcess == exchanges = {} /\ conns = NoConns /\ exit_code = -1 /\ cycle_log = <<>>

NoMetrics == [called |-> FALSE]

IdleReplay ==
    /\ series = <<>> /\ row = 0 /\ trade_log = <<>> /\ last_trade = NoTrade
    /\ base_balances = NoBalances /\ metrics = NoMetrics

-----------------------------------------------------------------------------
(* Scanner harness: both scanners applied to one drawn input.               *)

ScanConfigs ==
    { [trade_amount |-> t, max_trade_amount |-> m,
       min_profit_percent |-> mp, trade_currency |-> "USD"] :
         t \in Amounts, m \in Amounts, mp \in MinProfits }

InitScan ==
    /\ pc = "scan_input"
    /\ cfg \in ScanConfigs
    /\ fees \in [Venues -> FeeValues]
    /\ order_books \in [Venues -> Books]
    /\ balances \in [Venues -> BalanceValues]
    /\ scan_result = NoScan
    /\ opportunities = <<>>
    /\ opp_idx = 0
    /\ run = NoRun
    /\ mon = NoMon
    /\ feed = <<>>
    /\ IdleFetch /\ IdleProcess /\ IdleReplay

RunLiveScan ==
    /\ pc = "scan_input"
    /\ LET r == LiveScan(cfg, fees, order_books)
       IN  scan_result' = [engine |-> "live", raised |-> r.raised, opps |-> r.opps]
    /\ pc' = "scanned"
    /\ UNCHANGED <<cfg, fees, order_books, balances, opportunities, opp_idx,
                   run, mon, feed>>
    /\ UNCHANGED <<fetch_vars, proc_vars, replay_vars, cycle_log>>

RunReplayScan ==
    /\ pc = "scan_input"
    /\ LET r == ReplayScan(cfg, fees, order_books, balances)
       IN  scan_result' = [engine |-> "replay", raised |-> r.raised, opps |-> r.opps]
    /\ pc' = "scanned"
    /\ UNCHANGED <<cfg, fees, order_books, balances, opportunities, opp_idx,
                   run, mon, feed>>
    /\ UNCHANGED <<fetch_vars, proc_vars, replay_vars, cycle_log>>

NextScan == RunLiveScan \/ RunReplayScan

SpecScan == InitScan /\ [][NextScan]_vars

\* the contract of the Opportunity data model for one emitted opportunity
OppWellFormed(o) ==
    /\ Lt(o.buy_price, o.sell_price)
    /\ Le(cfg.min_profit_percent, o.profit_percent)
    /\ Lt(Q(0), o.amount)

\* C1: neither scanner ever emits an opportunity with buy_price >= sell_price,
\* with profit_percent < min_profit_percent, or with amount <= 0, whatever the
\* configured trade sizes.
C1_ScannersEmitOnlyWellFormed ==
    \A i \in 1..Len(scan_result.opps) : OppWellFormed(scan_result.opps[i])

-----------------------------------------------------------------------------
(* monitor_order: bounded polling of one order.                             *)

PollInterval == 5

MonitorTimeout == 60

SecondsPerDay == 86400

MaxElapsed == 86420

\* what one fetch_order call can yield: a status, or "error" when it raises
PollResults == {"open", "closed", "canceled", "unknown", "error"}

NonTerminal == {"open", "unknown", "error"}

\* timedelta.seconds: the seconds component of the elapsed duration
Seconds(elapsed) == elapsed % SecondsPerDay

\* the frame of a call monitor_order(exchange, order_id, symbol, timeout)
MonitorFrame(leg, timeout) ==
    [leg |-> leg, timeout |-> timeout, elapsed |-> 0, polls |-> 0,
     result |-> FALSE, cause |-> "none"]

\* slip: the loop is left one poll interval early
M_LoopCondition(m) == Seconds(m.elapsed) + PollInterval < m.timeout

\* (datetime.utcnow() - start_time).seconds < timeout
LoopCondition(m) == Seconds(m.elapsed) < m.timeout

\* the return of monitor_order to whoever awaits it, from frame m with the
\* opportunity's record rn: execute_trade awaits the buy monitor, then the
\* sell monitor, then classifies
MonitorReturn(m, rn, r, cause) ==
    LET done == [m EXCEPT !.result = r, !.cause = cause]
    IN  CASE m.leg = "buy" ->
               /\ run' = [rn EXCEPT !.buy_filled = r, !.buy_cause = cause]
               /\ mon' = MonitorFrame("sell", MonitorTimeout)
               /\ pc' = "mon_test"
          [] m.leg = "sell" ->
               /\ run' = [rn EXCEPT !.sell_filled = r, !.sell_cause = cause]
               /\ mon' = done
               /\ pc' = "classify"
          [] OTHER ->
               /\ run' = rn
               /\ mon' = done
               /\ pc' = "returned"

\* the while test; leaving the loop logs "not filled within timeout"
MonitorTest ==
    /\ pc = "mon_test"
    /\ IF LoopCondition(mon)
       THEN /\ pc' = "mon_poll"
            /\ UNCHANGED <<mon, run>>
       ELSE MonitorReturn(mon, run, FALSE, "timeout")
    /\ UNCHANGED <<cfg, fees, order_books, balances, scan_result,
                   opportunities, opp_idx, feed>>
    /\ UNCHANGED <<fetch_vars, proc_vars, replay_vars, cycle_log>>

\* slip: a raising fetch_order ends the monitoring
M_PollOutcome(st) ==
    CASE st = "closed"               -> "return_true"
      [] st \in {"canceled", "error"} -> "return_false"
      [] OTHER                       -> "sleep"

\* the branch on order['status']; a raising fetch_order is caught and logged
PollOutcome(st) ==
    CASE st = "closed"   -> "return_true"
      [] st = "canceled" -> "return_false"
      [] OTHER           -> "sleep"

\* one fetch_order call yielding st
MonitorPoll(st) ==
    /\ pc = "mon_poll"
    /\ LET polled  == [mon EXCEPT !.polls = @ + 1]
           counted == IF mon.leg \in {"buy", "sell"}
                      THEN [run EXCEPT !.polls[mon.leg] = @ + 1]
                      ELSE run
       IN  CASE PollOutcome(st) = "return_true" ->
                  MonitorReturn(polled, counted, TRUE, "closed")
             [] PollOutcome(st) = "return_false" ->
                  MonitorReturn(polled, counted, FALSE, "canceled")
             [] OTHER ->
                  /\ run' = counted
                  /\ mon' = polled
                  /\ pc' = "mon_sleep"
    /\ UNCHANGED <<cfg, fees, order_books, balances, scan_result,
                   opportunities, opp_idx, feed>>
    /\ UNCHANGED <<fetch_vars, proc_vars, replay_vars, cycle_log>>

\* await asyncio.sleep(5)
MonitorSleep ==
    /\ pc = "mon_sleep"
    /\ mon.elapsed < MaxElapsed
    /\ mon' = [mon EXCEPT !.elapsed = @ + PollInterval]
    /\ run' = IF mon.leg \in {"buy", "sell"}
              THEN [run EXCEPT !.since_placed = @ + PollInterval]
              ELSE run
    /\ pc' = "mon_test"
    /\ UNCHANGED <<cfg, fees, order_books, balances, scan_result,
                   opportunities, opp_idx, feed>>
    /\ UNCHANGED <<fetch_vars, proc_vars, replay_vars, cycle_log>>

-----------------------------------------------------------------------------
(* Monitor harness: one monitor_order call with a caller-supplied timeout   *)
(* on an order whose successive polls yield feed.prefix, then feed.rest.    *)

MaxFeed == 3

Timeouts == {0, 5, 7, 10, 11, 15, 60}

DayTimeouts == {SecondsPerDay}

FeedPrefixes == UNION {[1..k -> PollResults] : k \in 0..MaxFeed}

Feeds == {[prefix |-> p, rest |-> r] : p \in FeedPrefixes, r \in NonTerminal}

DayFeeds == {[prefix |-> <<>>, rest |-> r] : r \in NonTerminal}

FeedStatus(k) == IF k <= Len(feed.prefix) THEN feed.prefix[k] ELSE feed.rest

InitMonitorWith(timeouts, feeds) ==
    /\ pc = "mon_test"
    /\ mon \in {MonitorFrame("standalone", t) : t \in timeouts}
    /\ feed \in feeds
    /\ cfg = NoConfig
    /\ fees = NoFees
    /\ order_books = NoBooks
    /\ balances = NoBalances
    /\ scan_result = NoScan
    /\ opportunities = <<>>
    /\ opp_idx = 0
    /\ run = NoRun
    /\ IdleFetch /\ IdleProcess /\ IdleReplay

InitMonitor == InitMonitorWith(Timeouts, Feeds)

InitMonitorDay == InitMonitorWith(DayTimeouts, DayFeeds)

MonitorPollFeed ==
    /\ mon.leg = "standalone"
    /\ MonitorPoll(FeedStatus(mon.polls + 1))

NextMonitor == MonitorTest \/ MonitorPollFeed \/ MonitorSleep

SpecMonitor == InitMonitor /\ [][NextMonitor]_vars

SpecMonitorDay == InitMonitorDay /\ [][NextMonitor]_vars

-----------------------------------------------------------------------------
(* Live engine: main(), check_balance and execute_trade of arbitrage_bot.py, *)
(* from the first cycle on (init_exchanges returned every venue).           *)

\* the symbol is BTC/USD: BTC is its base currency, USD its quote currency
BaseCurrency == "BTC"

QuoteCurrency == "USD"

FetchError == [error |-> "raised"]

\* trade_currency is the settlement currency the cost of the buy leg is
\* checked against, USD for BTC/USD
LiveConfigs ==
    { [trade_amount |-> t, max_trade_amount |-> m,
       min_profit_percent |-> Frac(1, 2), trade_currency |-> QuoteCurrency] :
         t \in {Q(0), Q(1)}, m \in {Q(1), Q(2)} }

LiveFees == [v \in Venues |-> Frac(1, 1000)]

\* what fetch_balance can yield: free amounts per currency, or it raises
BalanceResponses == [Currencies -> {Q(0), Q(1000)}] \cup {FetchError}

NewRun ==
    [outcome |-> "none",
     checks |-> <<>>, buy_ok |-> FALSE, sell_ok |-> FALSE,
     buy_calls |-> 0, sell_calls |-> 0, cancel_calls |-> 0,
     buy_placed |-> FALSE, sell_placed |-> FALSE, cancel_ok |-> FALSE,
     polls |-> [buy |-> 0, sell |-> 0],
     buy_filled |-> FALSE, sell_filled |-> FALSE,
     buy_cause |-> "none", sell_cause |-> "none",
     since_placed |-> 0]

Init ==
    /\ pc = "init"
    /\ cfg \in LiveConfigs
    /\ fees = LiveFees
    /\ order_books = NoBooks
    /\ balances = NoBalances
    /\ scan_result = NoScan
    /\ opportunities = <<>>
    /\ opp_idx = 0
    /\ run = NoRun
    /\ mon = NoMon
    /\ feed = <<>>
    /\ exchanges = {}
    /\ conns = [v \in Venues |-> "none"]
    /\ exit_code = -1
    /\ cycle_log = <<>>
    /\ IdleFetch /\ IdleReplay

\* how init_exchanges ends for one configured venue: its API keys are missing
\* (no instance is created), load_markets raises, the symbol is not listed,
\* or the venue is added to exchange_instances
InitOutcomes == {"no_keys", "load_failed", "no_symbol", "ok"}

\* exchange_instances: the venues init_exchanges returns
UsableVenues(outcome) == {v \in DOMAIN outcome : outcome[v] = "ok"}

\* the ccxt instances init_exchanges created (exchange_class({...}))
ConnsAfterInit(outcome) ==
    [v \in DOMAIN outcome |-> IF outcome[v] = "no_keys" THEN "none" ELSE "open"]

\* asyncio.run(main()) after main returned: the interpreter exits with 0
ExitCodeReturned == 0

\* asyncio.run(main()) re-raises what escaped main: the interpreter exits
\* with 1
ExitCodeRaised == 1

\* exchanges = await init_exchanges(); if not exchanges: return
InitExchanges ==
    /\ pc = "init"
    /\ \E outcome \in [Venues -> InitOutcomes] :
         /\ exchanges' = UsableVenues(outcome)
         /\ conns' = ConnsAfterInit(outcome)
         /\ IF UsableVenues(outcome) = {}
            THEN /\ pc' = "exited"
                 /\ exit_code' = ExitCodeReturned
            ELSE /\ pc' = "fetch"
                 /\ exit_code' = exit_code
    /\ UNCHANGED <<cfg, fees, order_books, balances, scan_result,
                   opportunities, opp_idx, run, mon, feed, cycle_log>>
    /\ UNCHANGED <<fetch_vars, replay_vars>>

\* slip: one failed request discards the whole snapshot
M_SnapshotOf(resp) ==
    IF \E w \in DOMAIN resp : resp[w] = FetchError
    THEN NoBooks
    ELSE resp

\* fetch_order_books: the snapshot holds the venues whose request succeeded
SnapshotOf(resp) ==
    [v \in {w \in DOMAIN resp : resp[w] # FetchError} |-> resp[v]]

\* slip: an empty snapshot is scanned like any other
M_AfterFetch(books) == "scan"

\* if not order_books: sleep and continue
AfterFetch(books) == IF DOMAIN books = {} THEN "sleep" ELSE "scan"

\* the start of a cycle of main's while loop: one request per venue of
\* exchanges
FetchOrderBooks ==
    /\ pc = "fetch"
    /\ \E resp \in [exchanges -> Books \cup {FetchError}] :
         /\ order_books' = SnapshotOf(resp)
         /\ pc' = AfterFetch(SnapshotOf(resp))
    /\ opportunities' = <<>>
    /\ cycle_log' = <<>>
    /\ UNCHANGED <<cfg, fees, balances, scan_result, opp_idx, run, mon, feed>>
    /\ UNCHANGED <<fetch_vars, proc_vars, replay_vars>>

\* check_arbitrage_opportunities in main; a ZeroDivisionError leaves the loop
\* through except Exception and finally
ScanOpportunities ==
    /\ pc = "scan"
    /\ LET r == LiveScan(cfg, fees, order_books)
       IN  IF r.raised
           THEN /\ pc' = "closing"
                /\ UNCHANGED <<opportunities, opp_idx, run>>
           ELSE /\ opportunities' = r.opps
                /\ IF r.opps = <<>>
                   THEN /\ pc' = "sleep"
                        /\ UNCHANGED <<opp_idx, run>>
                   ELSE /\ pc' = "check_buy"
                        /\ opp_idx' = 1
                        /\ run' = NewRun
    /\ cycle_log' = Append(cycle_log, [op |-> "scan", idx |-> 0, outcome |-> "none"])
    /\ UNCHANGED <<cfg, fees, order_books, balances, scan_result, mon, feed>>
    /\ UNCHANGED <<fetch_vars, proc_vars, replay_vars>>

Opp == opportunities[opp_idx]

\* check_balance(exchange, currency, amount)
check_balance(resp, currency, amount) ==
    /\ resp # FetchError
    /\ Le(amount, resp[currency])

\* opp['buy_price'] * opp['amount'] * (1 + buy_ex_info['fees']['taker'])
BuyRequired(o) ==
    Mul(Mul(o.buy_price, o.amount), Add(Q(1), fees[o.buy_exchange]))

\* buy_currency = trade_currency
BuyCheckCurrency(o) == cfg.trade_currency

\* opp['amount_symbol'] if 'amount_symbol' in opp else trade_currency
SellCheckCurrency(o) ==
    IF "amount_symbol" \in DOMAIN o THEN o.amount_symbol ELSE cfg.trade_currency

CheckBuyBalance ==
    /\ pc = "check_buy"
    /\ \E resp \in BalanceResponses :
         run' = [run EXCEPT
                   !.buy_ok = check_balance(resp, BuyCheckCurrency(Opp), BuyRequired(Opp)),
                   !.checks = Append(@, [venue    |-> Opp.buy_exchange,
                                         currency |-> BuyCheckCurrency(Opp),
                                         required |-> BuyRequired(Opp)])]
    /\ pc' = "check_sell"
    /\ cycle_log' = Append(cycle_log, [op |-> "check", idx |-> opp_idx, outcome |-> "none"])
    /\ UNCHANGED <<cfg, fees, order_books, balances, scan_result,
                   opportunities, opp_idx, mon, feed>>
    /\ UNCHANGED <<fetch_vars, proc_vars, replay_vars>>

\* slip: the sell venue's result is ignored
M_BalanceGate(buy_ok, sell_ok) == buy_ok

\* the branch main takes on the two results
BalanceGate(buy_ok, sell_ok) == buy_ok /\ sell_ok

CheckSellBalance ==
    /\ pc = "check_sell"
    /\ \E resp \in BalanceResponses :
         LET ok == check_balance(resp, SellCheckCurrency(Opp), Opp.amount)
             rn == [run EXCEPT
                      !.sell_ok = ok,
                      !.checks = Append(@, [venue    |-> Opp.sell_exchange,
                                            currency |-> SellCheckCurrency(Opp),
                                            required |-> Opp.amount])]
         IN  IF BalanceGate(run.buy_ok, ok)
             THEN /\ run' = rn
                  /\ pc' = "place_buy"
             ELSE /\ run' = [rn EXCEPT !.outcome = "Aborted"]
                  /\ pc' = "opp_done"
    /\ UNCHANGED <<cfg, fees, order_books, balances, scan_result,
                   opportunities, opp_idx, mon, feed>>
    /\ UNCHANGED <<fetch_vars, proc_vars, replay_vars, cycle_log>>

\* slip: a failed buy placement does not return
M_AfterBuyPlacement(ok) == "place_sell"

\* execute_trade: create_limit_buy_order succeeded (ok) or raised
AfterBuyPlacement(ok) == IF ok THEN "place_sell" ELSE "failed"

PlaceBuy ==
    /\ pc = "place_buy"
    /\ \E ok \in BOOLEAN :
         LET rn == [run EXCEPT !.buy_calls = @ + 1, !.buy_placed = ok]
         IN  IF AfterBuyPlacement(ok) = "failed"
             THEN /\ run' = [rn EXCEPT !.outcome = "Failed"]
                  /\ pc' = "opp_done"
             ELSE /\ run' = rn
                  /\ pc' = AfterBuyPlacement(ok)
    /\ cycle_log' = Append(cycle_log, [op |-> "place", idx |-> opp_idx, outcome |-> "none"])
    /\ UNCHANGED <<cfg, fees, order_books, balances, scan_result,
                   opportunities, opp_idx, mon, feed>>
    /\ UNCHANGED <<fetch_vars, proc_vars, replay_vars>>

\* slip: a failed sell placement is submitted again
M_AfterSellPlacement(ok) == IF ok THEN "monitor" ELSE "place_sell"

\* slip: the buy order is cancelled although the sell order was placed
M_AfterSellPlacementCancel(ok) == "cancel"

\* execute_trade: create_limit_sell_order succeeded (ok) or raised
AfterSellPlacement(ok) == IF ok THEN "monitor" ELSE "cancel"

PlaceSell ==
    /\ pc = "place_sell"
    /\ \E ok \in BOOLEAN :
         /\ run' = [run EXCEPT !.sell_calls = @ + 1, !.sell_placed = ok]
         /\ IF AfterSellPlacement(ok) = "monitor"
            THEN /\ mon' = MonitorFrame("buy", MonitorTimeout)
                 /\ pc' = "mon_test"
            ELSE /\ mon' = mon
                 /\ pc' = AfterSellPlacement(ok)
    /\ UNCHANGED <<cfg, fees, order_books, balances, scan_result,
                   opportunities, opp_idx, feed>>
    /\ UNCHANGED <<fetch_vars, proc_vars, replay_vars, cycle_log>>

\* slip: a raising cancel_order escapes execute_trade
M_AfterCancel(ok) == IF ok THEN "Failed" ELSE "Raised"

\* execute_trade: after the compensating cancel_order succeeded (ok) or raised
AfterCancel(ok) == "Failed"

CancelBuy ==
    /\ pc = "cancel"
    /\ \E ok \in BOOLEAN :
         run' = [run EXCEPT !.cancel_calls = @ + 1, !.cancel_ok = ok,
                            !.outcome = AfterCancel(ok)]
    /\ pc' = "opp_done"
    /\ UNCHANGED <<cfg, fees, order_books, balances, scan_result,
                   opportunities, opp_idx, mon, feed>>
    /\ UNCHANGED <<fetch_vars, proc_vars, replay_vars, cycle_log>>

\* a poll of the order execute_trade monitors
MonitorPollVenue ==
    /\ mon.leg \in {"buy", "sell"}
    /\ \E st \in PollResults : MonitorPoll(st)

\* slip: one filled leg is enough
M_TradeResult(buy_filled, sell_filled) ==
    IF buy_filled \/ sell_filled THEN "Succeeded" ELSE "Failed"

\* if buy_filled and sell_filled: return True, else: return False
TradeResult(buy_filled, sell_filled) ==
    IF buy_filled /\ sell_filled THEN "Succeeded" ELSE "Failed"

Classify ==
    /\ pc = "classify"
    /\ run' = [run EXCEPT !.outcome = TradeResult(run.buy_filled, run.sell_filled)]
    /\ pc' = "opp_done"
    /\ UNCHANGED <<cfg, fees, order_books, balances, scan_result,
                   opportunities, opp_idx, mon, feed>>
    /\ UNCHANGED <<fetch_vars, proc_vars, replay_vars, cycle_log>>

\* the for loop of main moves to the next opportunity, or the cycle ends
\* slip: the loop does not advance to the next element
M_NextIndex(i) == i

\* for opp in opportunities: the element after opportunities[i]
NextIndex(i) == i + 1

NextOpportunity ==
    /\ pc = "opp_done"
    /\ IF opp_idx < Len(opportunities)
       THEN /\ opp_idx' = NextIndex(opp_idx)
            /\ run' = NewRun
            /\ pc' = "check_buy"
       ELSE /\ opp_idx' = 0
            /\ run' = NoRun
            /\ pc' = "sleep"
    /\ mon' = NoMon
    /\ cycle_log' = Append(cycle_log, [op |-> "done", idx |-> opp_idx,
                                       outcome |-> run.outcome])
    /\ UNCHANGED <<cfg, fees, order_books, balances, scan_result,
                   opportunities, feed>>
    /\ UNCHANGED <<fetch_vars, proc_vars, replay_vars>>

\* await asyncio.sleep(check_interval), then the next cycle
Sleep ==
    /\ pc = "sleep"
    /\ pc' = "fetch"
    /\ cycle_log' = Append(cycle_log, [op |-> "sleep", idx |-> 0, outcome |-> "none"])
    /\ UNCHANGED <<cfg, fees, order_books, balances, scan_result,
                   opportunities, opp_idx, run, mon, feed>>
    /\ UNCHANGED <<fetch_vars, proc_vars, replay_vars>>

\* the venues close_exchanges reaches: it awaits close() venue by venue, in
\* the order of the dict, and the first close() that raises ends the loop
RECURSIVE ClosedUpTo(_, _, _)
ClosedUpTo(names, res, i) ==
    IF i > Len(names) \/ res[names[i]] = "raise" THEN {}
    ELSE {names[i]} \cup ClosedUpTo(names, res, i + 1)

ClosedVenues(res) ==
    ClosedUpTo(SelectSeq(VenueOrder, LAMBDA v : v \in DOMAIN res), res, 1)

\* finally: close_exchanges; the exception of the loop was logged by except
\* Exception, so main returns, unless a close() raises
CloseExchanges ==
    /\ pc = "closing"
    /\ \E res \in [exchanges -> {"ok", "raise"}] :
         /\ conns' = [v \in DOMAIN conns |->
                        IF v \in ClosedVenues(res) THEN "closed" ELSE conns[v]]
         /\ exit_code' = IF ClosedVenues(res) = exchanges
                         THEN ExitCodeReturned ELSE ExitCodeRaised
    /\ pc' = "exited"
    /\ UNCHANGED <<cfg, fees, order_books, balances, scan_result,
                   opportunities, opp_idx, run, mon, feed, exchanges, cycle_log>>
    /\ UNCHANGED <<fetch_vars, replay_vars>>

Next ==
    \/ InitExchanges
    \/ FetchOrderBooks
    \/ ScanOpportunities
    \/ CheckBuyBalance
    \/ CheckSellBalance
    \/ PlaceBuy
    \/ PlaceSell
    \/ CancelBuy
    \/ MonitorTest
    \/ MonitorPollVenue
    \/ MonitorSleep
    \/ Classify
    \/ NextOpportunity
    \/ Sleep
    \/ CloseExchanges

Spec == Init /\ [][Next]_vars

-----------------------------------------------------------------------------
(* Properties of the live engine.                                           *)

\* main is working on opportunities[opp_idx], and run records what it did
InOpp ==
    pc \in {"check_buy", "check_sell", "place_buy", "place_sell", "cancel",
            "mon_test", "mon_poll", "mon_sleep", "classify", "opp_done"}

OppDone == pc = "opp_done"

BuyPlacementFailed == InOpp /\ run.buy_calls = 1 /\ ~run.buy_placed

SellPlacementFailed == InOpp /\ run.buy_placed /\ run.sell_calls = 1 /\ ~run.sell_placed

BothPlaced == InOpp /\ run.buy_placed /\ run.sell_placed

BalanceRefused ==
    /\ InOpp
    /\ Len(run.checks) = 2
    /\ ~run.buy_ok \/ ~run.sell_ok

\* C2: when the buy order was placed and the sell placement fails, exactly one
\* cancel_order call is made and execute_trade ends Failed, whether the cancel
\* succeeds or raises.
C2_SellFailureCancelsOnce ==
    /\ InOpp => run.cancel_calls <= 1
    /\ (SellPlacementFailed /\ pc # "cancel") =>
          /\ OppDone
          /\ run.cancel_calls = 1
          /\ run.outcome = "Failed"

C2_Witness ==
    SellPlacementFailed /\ OppDone /\ run.cancel_calls = 1 /\ ~run.cancel_ok

\* C3: when the buy placement fails the outcome is Failed and no sell order
\* is placed, no cancel_order is called and no order is monitored.
C3_BuyFailureStopsThere ==
    BuyPlacementFailed =>
        /\ OppDone
        /\ run.outcome = "Failed"
        /\ run.sell_calls = 0
        /\ run.cancel_calls = 0
        /\ run.polls.buy = 0 /\ run.polls.sell = 0

C3_Witness == BuyPlacementFailed /\ OppDone /\ run.outcome = "Failed"

\* C4: when either balance check reports insufficient balance (or the fetch
\* fails) the opportunity is aborted with no buy order, no sell order and no
\* cancellation, and the loop is ready to move on.
C4_BalanceRefusalAborts ==
    BalanceRefused =>
        /\ OppDone
        /\ run.outcome = "Aborted"
        /\ run.buy_calls = 0
        /\ run.sell_calls = 0
        /\ run.cancel_calls = 0
        /\ run.polls.buy = 0 /\ run.polls.sell = 0
        /\ ENABLED NextOpportunity

C4_Witness ==
    BalanceRefused /\ OppDone /\ run.buy_ok /\ ~run.sell_ok
        /\ run.outcome = "Aborted"

\* C5: before any order is placed the buy venue is checked for the quote
\* currency with buy_price * amount * (1 + buy taker fee), and the sell venue
\* for the base currency with the trade size.
C5_BalanceChecksPerLeg ==
    /\ (InOpp /\ run.buy_calls > 0) => Len(run.checks) = 2
    /\ (InOpp /\ Len(run.checks) = 2) =>
          /\ run.checks[1] = [venue    |-> Opp.buy_exchange,
                              currency |-> QuoteCurrency,
                              required |-> Mul(Mul(Opp.buy_price, Opp.amount),
                                               Add(Q(1), fees[Opp.buy_exchange]))]
          /\ run.checks[2] = [venue    |-> Opp.sell_exchange,
                              currency |-> BaseCurrency,
                              required |-> Opp.amount]

\* C6: once both orders are placed the trade is Succeeded exactly when both
\* monitors observed 'closed' on a poll, Failed when either was canceled or
\* timed out, and no outcome exists before both monitors have resolved.
C6_OutcomeFromBothMonitors ==
    BothPlaced =>
        /\ run.outcome # "none" =>
              /\ OppDone
              /\ run.buy_cause # "none" /\ run.sell_cause # "none"
              /\ run.outcome = "Succeeded" <=>
                    (run.buy_cause = "closed" /\ run.sell_cause = "closed")
              /\ run.outcome \in {"Succeeded", "Failed"}
        /\ run.buy_cause = "closed" => run.polls.buy >= 1
        /\ run.sell_cause = "closed" => run.polls.sell >= 1
        /\ OppDone => run.outcome # "none"

C6_Witness ==
    BothPlaced /\ OppDone /\ run.outcome = "Succeeded"

C6_WitnessFailed ==
    BothPlaced /\ OppDone /\ run.outcome = "Failed"
        /\ run.buy_cause = "closed" /\ run.sell_cause = "timeout"

\* C7: the two monitors run concurrently, so the opportunity is classified
\* within one monitoring timeout of the placement of both orders.
C7_ClassifiedWithinOneTimeout ==
    (BothPlaced /\ OppDone) => run.since_placed <= MonitorTimeout

-----------------------------------------------------------------------------
(* Properties of monitor_order.                                             *)

Returned == pc = "returned"

AllOpenFeed ==
    /\ feed.rest = "open"
    /\ \A i \in 1..Len(feed.prefix) : feed.prefix[i] = "open"

\* C8: an order polled as [open, open, closed] with a timeout longer than two
\* poll intervals is reported filled on the third poll, before the timeout.
C8_OpenOpenClosedSucceeds ==
    (Returned /\ feed.prefix = <<"open", "open", "closed">>
              /\ mon.timeout > 2 * PollInterval) =>
        /\ mon.result = TRUE
        /\ mon.cause = "closed"
        /\ mon.polls = 3
        /\ mon.elapsed = 2 * PollInterval
        /\ mon.elapsed < mon.timeout

C8_Witness ==
    /\ Returned
    /\ feed.prefix = <<"open", "open", "closed">>
    /\ mon.timeout = 2 * PollInterval + 1
    /\ mon.result = TRUE

\* C9: an order that is open on every poll is reported not filled exactly
\* when the caller's timeout has elapsed, neither earlier nor later.
C9_FailureExactlyAtTimeout ==
    (Returned /\ AllOpenFeed) =>
        /\ mon.result = FALSE
        /\ mon.elapsed = mon.timeout

\* C10: the number of polls is bounded by the timeout and the poll interval
\* (one poll per interval that starts before the timeout), for every timeout.
C10_PollsBounded ==
    mon.polls <= (mon.timeout + PollInterval - 1) \div PollInterval

AllErrorFeed ==
    /\ feed.rest = "error"
    /\ \A i \in 1..Len(feed.prefix) : feed.prefix[i] = "error"

\* C11: a raising status fetch does not end monitoring: the monitor sleeps
\* and polls again, a later 'closed' within the timeout still yields success,
\* and fetch errors alone yield no result before the timeout.
C11_FetchErrorsDoNotEndMonitoring ==
    /\ (Returned /\ mon.polls >= 1 /\ FeedStatus(mon.polls) = "error") =>
          /\ mon.cause = "timeout"
          /\ mon.elapsed >= mon.timeout
    /\ (Returned /\ feed.prefix = <<"error", "closed">>
                 /\ mon.timeout > PollInterval) =>
          /\ mon.result = TRUE
          /\ mon.polls = 2
          /\ mon.elapsed = PollInterval
    /\ (Returned /\ AllErrorFeed) =>
          /\ mon.result = FALSE
          /\ mon.cause = "timeout"
          /\ mon.elapsed >= mon.timeout

C11_Witness ==
    /\ Returned
    /\ feed.prefix = <<"error", "closed">>
    /\ mon.timeout = 7
    /\ mon.result = TRUE

-----------------------------------------------------------------------------
(* fetch_order_books on three venues: the fetch_order_book coroutines that  *)
(* asyncio.gather runs issue their request and complete in any order.       *)

NewTask == [state |-> "created", requests |-> 0, result |-> None]

InitFetch ==
    /\ pc = "gather"
    /\ tasks = [v \in AllVenues |-> NewTask]
    /\ cfg = NoConfig
    /\ fees = NoFees
    /\ order_books = NoBooks
    /\ balances = NoBalances
    /\ scan_result = NoScan
    /\ opportunities = <<>>
    /\ opp_idx = 0
    /\ run = NoRun
    /\ mon = NoMon
    /\ feed = <<>>
    /\ IdleProcess /\ IdleReplay

\* await exchange.fetch_order_book(symbol) is reached: the request is sent
IssueRequest(v) ==
    /\ pc = "gather"
    /\ tasks[v].state = "created"
    /\ tasks' = [tasks EXCEPT ![v].state = "waiting", ![v].requests = @ + 1]
    /\ UNCHANGED <<pc, cfg, fees, order_books, balances, scan_result,
                   opportunities, opp_idx, run, mon, feed>>
    /\ UNCHANGED <<proc_vars, replay_vars, cycle_log>>

\* the request returns the top of the book, or raises and fetch_order_book
\* returns None
CompleteRequest(v) ==
    /\ pc = "gather"
    /\ tasks[v].state = "waiting"
    /\ \E r \in Books \cup {FetchError} :
         tasks' = [tasks EXCEPT ![v].state = "done", ![v].result = r]
    /\ UNCHANGED <<pc, cfg, fees, order_books, balances, scan_result,
                   opportunities, opp_idx, run, mon, feed>>
    /\ UNCHANGED <<proc_vars, replay_vars, cycle_log>>

\* gather returns once every task is done; the results are filtered
GatherResults ==
    /\ pc = "gather"
    /\ \A v \in DOMAIN tasks : tasks[v].state = "done"
    /\ order_books' = SnapshotOf([v \in DOMAIN tasks |-> tasks[v].result])
    /\ pc' = "fetched"
    /\ UNCHANGED <<cfg, fees, balances, scan_result, opportunities, opp_idx,
                   run, mon, feed>>
    /\ UNCHANGED <<fetch_vars, proc_vars, replay_vars, cycle_log>>

NextFetch ==
    \/ \E v \in AllVenues : IssueRequest(v)
    \/ \E v \in AllVenues : CompleteRequest(v)
    \/ GatherResults

SpecFetch == InitFetch /\ [][NextFetch]_vars

Succeeded(v) == tasks[v].state = "done" /\ tasks[v].result # FetchError

\* C12: fetch_order_books sends one request per venue and returns exactly the
\* venues whose request succeeded, whichever fail and in whatever order the
\* requests complete; with every venue failing it returns an empty snapshot.
C12_SnapshotIsTheSucceededVenues ==
    /\ \A v \in AllVenues : tasks[v].requests <= 1
    /\ (pc = "gather" /\ \A v \in AllVenues : tasks[v].state = "done") =>
          ENABLED GatherResults
    /\ pc = "fetched" =>
          /\ \A v \in AllVenues : tasks[v].requests = 1
          /\ DOMAIN order_books = {v \in AllVenues : Succeeded(v)}
          /\ \A v \in DOMAIN order_books : order_books[v] = tasks[v].result

C12_Witness ==
    /\ pc = "fetched"
    /\ Cardinality({v \in AllVenues : tasks[v].result = FetchError}) = 1
    /\ Cardinality(DOMAIN order_books) = 2

C12_WitnessAllFail ==
    /\ pc = "fetched"
    /\ \A v \in AllVenues : tasks[v].result = FetchError
    /\ DOMAIN order_books = {}

-----------------------------------------------------------------------------
\* Properties of main's loop and of the start and the end of the process.

Event(op, idx, outcome) == [op |-> op, idx |-> idx, outcome |-> outcome]

SleepEvent == Event("sleep", 0, "none")

EmptySnapshot == exchanges # {} /\ DOMAIN order_books = {}

\* C13: a cycle whose snapshot is empty scans nothing, checks no balance and
\* places no order: it only sleeps, then the next cycle starts with a fetch,
\* and the loop does not exit.
C13_EmptySnapshotDefersTheCycle ==
    /\ [](EmptySnapshot =>
            /\ pc \in {"sleep", "fetch"}
            /\ pc = "sleep" => cycle_log = <<>>
            /\ pc = "fetch" => cycle_log \in {<<>>, <<SleepEvent>>}
            /\ exit_code = -1)
    /\ [][(EmptySnapshot /\ pc = "sleep") =>
            (pc' = "fetch" /\ cycle_log' = <<SleepEvent>>)]_vars

C13_Witness ==
    /\ EmptySnapshot
    /\ pc = "fetch"
    /\ cycle_log = <<SleepEvent>>

TerminalOutcomes == {"Aborted", "Failed", "Succeeded"}

\* positions of cycle_log where something was done for opportunity k
StepsOf(k) == {i \in 1..Len(cycle_log) : cycle_log[i].idx = k}

DoneOf(k) == {i \in StepsOf(k) : cycle_log[i].op = "done"}

ChecksOf(k) == {i \in StepsOf(k) : cycle_log[i].op = "check"}

PlacedOf(k) == {i \in StepsOf(k) : cycle_log[i].op = "place"}

\* opportunity k was taken up in this cycle
Started(k) == StepsOf(k) # {}

\* C14: the opportunities of a cycle are processed one at a time in the
\* scanner's order: nothing is checked or placed for opportunity k+1 before
\* opportunity k has its terminal outcome, each opportunity is processed
\* exactly once, and the cycle sleeps and fetches again only when every
\* opportunity is terminal.
C14_OneOpportunityAtATime ==
    /\ \A k \in 1..Len(opportunities) :
         /\ Cardinality(DoneOf(k)) <= 1
         /\ Cardinality(ChecksOf(k)) <= 1
         /\ Cardinality(PlacedOf(k)) <= 1
         /\ \A i \in DoneOf(k) :
              /\ cycle_log[i].outcome \in TerminalOutcomes
              /\ \A j \in StepsOf(k) : j <= i
         /\ (k > 1 /\ Started(k)) =>
              \E i \in DoneOf(k - 1) : \A j \in StepsOf(k) : i < j
    /\ \A i \in 1..Len(cycle_log) : cycle_log[i].idx \in 0..Len(opportunities)
    /\ InOpp => /\ opp_idx \in 1..Len(opportunities)
                /\ DoneOf(opp_idx) = {}
                /\ \A k \in 1..Len(opportunities) : Started(k) => k <= opp_idx
    /\ (pc = "sleep" \/ (pc = "fetch" /\ cycle_log # <<>>)) =>
          \A k \in 1..Len(opportunities) : Cardinality(DoneOf(k)) = 1
    /\ (pc = "fetch" /\ cycle_log # <<>>) =>
          cycle_log[Len(cycle_log)] = SleepEvent

C14_Witness ==
    /\ pc = "fetch"
    /\ Len(opportunities) = 2
    /\ \E i \in DoneOf(1) : cycle_log[i].outcome = "Succeeded"
    /\ \E i \in DoneOf(2) : cycle_log[i].outcome = "Aborted"
    /\ PlacedOf(1) # {}

ProcessEnded == pc = "exited"

\* C15: on every exit path every connection created during initialization
\* ends up closed, also when closing a venue fails and also for the venues
\* whose instance was created and then rejected.
C15_EveryConnectionClosedAtExit ==
    ProcessEnded => \A v \in DOMAIN conns : conns[v] # "open"

\* C16: when initialization leaves no usable venue the process ends with a
\* non-zero exit code.
C16_NoUsableVenueExitsNonZero ==
    (ProcessEnded /\ exchanges = {}) => exit_code # ExitCodeReturned

-----------------------------------------------------------------------------
(* Replay engine: backtest.backtest and backtest.simulate_trade.  The rows  *)
(* of df_merged are the elements of series; the timestamp of a row is its   *)
(* position.                                                                *)

MaxRows == 2

\* the quotes of one venue in a row of df_merged (dropna leaves no gap)
RowBooks ==
    { [bid |-> Price(99),  ask |-> Price(100)],
      [bid |-> Price(110), ask |-> Price(111)] }

\* the taker fees of exchanges_config in the replays
ReplayFeeValues == {Q(0), Frac(1, 100)}

Rows == [AllVenues -> RowBooks]

SeriesOfLen(n) == [1..n -> Rows]

AllSeries == UNION {SeriesOfLen(n) : n \in 1..MaxRows}

InitialBalances == {Q(100), Q(1000)}

ReplayConfigs ==
    { [trade_amount |-> Q(1), max_trade_amount |-> Q(1),
       min_profit_percent |-> Frac(1, 2), trade_currency |-> QuoteCurrency,
       initial_balance |-> b] : b \in InitialBalances }

\* balances = {ex: {'USD': initial_balance, 'BTC': 0} for ex in exchange_names}
InitReplay ==
    /\ pc = "next_row"
    /\ cfg \in ReplayConfigs
    /\ fees \in [AllVenues -> ReplayFeeValues]
    /\ series \in AllSeries
    /\ row = 0
    /\ balances = [v \in AllVenues |-> cfg.initial_balance]
    /\ base_balances = [v \in AllVenues |-> Q(0)]
    /\ trade_log = <<>>
    /\ last_trade = NoTrade
    /\ metrics = NoMetrics
    /\ order_books = NoBooks
    /\ scan_result = NoScan
    /\ opportunities = <<>>
    /\ opp_idx = 0
    /\ run = NoRun
    /\ mon = NoMon
    /\ feed = <<>>
    /\ IdleFetch /\ IdleProcess

\* for timestamp, row in df_merged.iterrows(): build order_books and scan
NextRow ==
    /\ pc = "next_row"
    /\ IF row < Len(series)
       THEN /\ row' = row + 1
            /\ order_books' = series[row + 1]
            /\ LET r == ReplayScan(cfg, fees, series[row + 1], balances)
               IN  /\ opportunities' = r.opps
                   /\ pc' = IF r.raised THEN "replay_raised"
                            ELSE IF r.opps = <<>> THEN "next_row"
                            ELSE "simulate"
       ELSE /\ pc' = "replay_done"
            /\ UNCHANGED <<row, order_books, opportunities>>
    /\ opp_idx' = 0
    /\ UNCHANGED <<cfg, fees, balances, scan_result, run, mon, feed>>
    /\ UNCHANGED <<fetch_vars, proc_vars, cycle_log, series, trade_log,
                   last_trade, base_balances, metrics>>

\* slip: the cost leaves out the buy fee
M_TradeCost(opp, f) == Mul(opp.amount, opp.buy_price)

\* cost = amount * buy_price * (1 + buy_fee)
TradeCost(opp, f) ==
    Mul(Mul(opp.amount, opp.buy_price), Add(Q(1), f[opp.buy_exchange]))

\* revenue = amount * sell_price * (1 - sell_fee)
TradeRevenue(opp, f) ==
    Mul(Mul(opp.amount, opp.sell_price), Sub(Q(1), f[opp.sell_exchange]))

\* slip: the trade is applied whatever the balance
M_Sufficient(bal, opp, f) == TRUE

\* slip: the cost is compared with the balance the replay started with
M_SufficientInitially(bal, opp, f) == Le(TradeCost(opp, f), cfg.initial_balance)

\* if balances[buy_ex]['USD'] >= cost
Sufficient(bal, opp, f) == Le(TradeCost(opp, f), bal[opp.buy_exchange])

\* slip: the sell venue is credited before its fee
M_ApplyTrade(bal, opp, f) ==
    [bal EXCEPT ![opp.buy_exchange]  = Sub(@, TradeCost(opp, f)),
                ![opp.sell_exchange] = Add(@, Mul(opp.amount, opp.sell_price))]

\* balances[buy_ex]['USD'] -= cost; balances[sell_ex]['USD'] += revenue
ApplyTrade(bal, opp, f) ==
    [bal EXCEPT ![opp.buy_exchange]  = Sub(@, TradeCost(opp, f)),
                ![opp.sell_exchange] = Add(@, TradeRevenue(opp, f))]

\* slip: the record keeps the timestamp the scanner left in the opportunity
M_TradeRecord(opp, timestamp) ==
    [timestamp      |-> 0,
     buy_exchange   |-> opp.buy_exchange,
     sell_exchange  |-> opp.sell_exchange,
     buy_price      |-> opp.buy_price,
     sell_price     |-> opp.sell_price,
     profit_percent |-> opp.profit_percent,
     profit         |-> opp.profit,
     amount         |-> opp.amount]

\* {'timestamp': timestamp, **opp}
TradeRecord(opp, timestamp) ==
    [timestamp      |-> timestamp,
     buy_exchange   |-> opp.buy_exchange,
     sell_exchange  |-> opp.sell_exchange,
     buy_price      |-> opp.buy_price,
     sell_price     |-> opp.sell_price,
     profit_percent |-> opp.profit_percent,
     profit         |-> opp.profit,
     amount         |-> opp.amount]

\* one turn of 'for opp in opportunities': simulate_trade and the append
SimulateTrade ==
    /\ pc = "simulate"
    /\ opp_idx < Len(opportunities)
    /\ LET opp     == opportunities[opp_idx + 1]
           success == Sufficient(balances, opp, fees)
       IN  /\ balances' = IF success THEN ApplyTrade(balances, opp, fees)
                          ELSE balances
           /\ trade_log' = IF success THEN Append(trade_log, TradeRecord(opp, row))
                           ELSE trade_log
           /\ last_trade' = [called |-> TRUE, opp |-> opp, timestamp |-> row,
                             success |-> success]
    /\ opp_idx' = opp_idx + 1
    /\ pc' = IF opp_idx + 1 < Len(opportunities) THEN "simulate" ELSE "next_row"
    /\ UNCHANGED <<cfg, fees, order_books, scan_result, opportunities, run,
                   mon, feed>>
    /\ UNCHANGED <<fetch_vars, proc_vars, cycle_log, series, row,
                   base_balances, metrics>>

\* df = df.dropna(subset=['duration']): diff() leaves no duration on the first
\* record, which is dropped
MetricsRows(log) == IF log = <<>> THEN <<>> ELSE Tail(log)

\* df['timestamp'].unique()
UniqueTimestamps(rows) == {rows[i].timestamp : i \in 1..Len(rows)}

\* df['return'] = df['profit'] / (df['buy_price'] * df['amount'])
Return(t) == Div(t.profit, Mul(t.buy_price, t.amount))

RECURSIVE TotalReturn(_, _)
TotalReturn(rows, i) ==
    IF i > Len(rows) THEN Q(0) ELSE Add(Return(rows[i]), TotalReturn(rows, i + 1))

\* df['return'].std(): NaN with fewer than two records, zero when all the
\* returns are equal
ReturnStd(rows) ==
    IF Len(rows) < 2 THEN "nan"
    ELSE IF \A i \in 1..Len(rows) : Return(rows[i]) = Return(rows[1]) THEN "zero"
    ELSE "positive"

\* np.sqrt(365) * df['return'].mean() / df['return'].std(): a division of
\* numpy floats, which gives inf or nan on a zero divisor
RatioOverStd(rows, of) ==
    CASE ReturnStd(of) = "nan"  -> "nan"
      [] ReturnStd(of) = "zero" ->
            IF IsZero(TotalReturn(rows, 1)) THEN "nan" ELSE "inf"
      [] OTHER                  -> "finite"

SharpeRatio(rows) == RatioOverStd(rows, rows)

\* downside_returns = df[df['return'] < 0]['return']
DownsideReturns(rows) == SelectSeq(rows, LAMBDA t : Lt(Return(t), Q(0)))

\* ... / downside_returns.std() if len(downside_returns) > 0 else np.inf
SortinoRatio(rows) ==
    IF Len(DownsideReturns(rows)) > 0
    THEN RatioOverStd(rows, DownsideReturns(rows))
    ELSE "inf"

\* annualized_return / abs(max_drawdown) if max_drawdown != 0 else np.inf;
\* the drawdown of the cumulative product of 1 + return is zero exactly when
\* no return is negative
CalmarRatio(rows) ==
    IF DownsideReturns(rows) = <<>> THEN "inf" ELSE "finite"

MetricsOf(error, rows) ==
    [called          |-> TRUE,
     raised          |-> error # "none",
     error           |-> error,
     records         |-> Len(rows),
     trade_frequency |-> IF error # "none" THEN None
                         ELSE Frac(Len(rows), Cardinality(UniqueTimestamps(rows))),
     sharpe_ratio    |-> IF error # "none" THEN "none" ELSE SharpeRatio(rows),
     sortino_ratio   |-> IF error # "none" THEN "none" ELSE SortinoRatio(rows),
     calmar_ratio    |-> IF error # "none" THEN "none" ELSE CalmarRatio(rows)]

\* main_backtest after backtest returned: trade_log_df['profit'] raises
\* KeyError on the frame of an empty list, which has no columns;
\* calculate_advanced_metrics divides len(df) by the number of unique
\* timestamps, two ints, after the first record was dropped
calculate_advanced_metrics(log) ==
    IF log = <<>> THEN MetricsOf("KeyError", <<>>)
    ELSE IF MetricsRows(log) = <<>> THEN MetricsOf("ZeroDivisionError", <<>>)
    ELSE MetricsOf("none", MetricsRows(log))

CalculateMetrics ==
    /\ pc = "replay_done"
    /\ metrics' = calculate_advanced_metrics(trade_log)
    /\ pc' = "metrics_done"
    /\ UNCHANGED <<cfg, fees, order_books, balances, scan_result,
                   opportunities, opp_idx, run, mon, feed>>
    /\ UNCHANGED <<fetch_vars, proc_vars, cycle_log, series, row, trade_log,
                   last_trade, base_balances>>

NextReplay == NextRow \/ SimulateTrade \/ CalculateMetrics

SpecReplay == InitReplay /\ [][NextReplay]_vars

-----------------------------------------------------------------------------
\* Properties of the replay ledger.

ReplayDone == pc = "replay_done"

RECURSIVE SumOver(_, _, _)
SumOver(bal, names, i) ==
    IF i > Len(names) THEN Q(0)
    ELSE Add(bal[names[i]], SumOver(bal, names, i + 1))

\* the sum over all venues of the simulated quote-currency balances
TotalBalance == SumOver(balances, ExchangeNames(balances), 1)

InitialTotal == Mul(Q(Cardinality(AllVenues)), cfg.initial_balance)

\* the taker fees of one applied trade: the fee share of the cost and the fee
\* share of the proceeds
FeesOfTrade(t) ==
    Add(Mul(Mul(t.amount, t.buy_price), fees[t.buy_exchange]),
        Mul(Mul(t.amount, t.sell_price), fees[t.sell_exchange]))

\* what one applied trade earns before fees
SpreadOfTrade(t) == Mul(t.amount, Sub(t.sell_price, t.buy_price))

RECURSIVE TotalFees(_, _)
TotalFees(log, i) ==
    IF i > Len(log) THEN Q(0) ELSE Add(FeesOfTrade(log[i]), TotalFees(log, i + 1))

RECURSIVE TotalSpread(_, _)
TotalSpread(log, i) ==
    IF i > Len(log) THEN Q(0) ELSE Add(SpreadOfTrade(log[i]), TotalSpread(log, i + 1))

\* C17 as stated: after the replay the sum of the balances is the sum of the
\* initial balances minus the taker fees paid on the applied trades.
C17_TotalIsInitialMinusFees ==
    ReplayDone => TotalBalance = Sub(InitialTotal, TotalFees(trade_log, 1))

\* C17, amended: after the replay the sum of the balances is the sum of the
\* initial balances, plus amount * (sell_price - buy_price) of every applied
\* trade, minus the taker fees paid on the applied trades.
C17_TotalIsInitialPlusSpreadMinusFees ==
    ReplayDone =>
        TotalBalance = Sub(Add(InitialTotal, TotalSpread(trade_log, 1)),
                           TotalFees(trade_log, 1))

C17_Witness ==
    /\ ReplayDone
    /\ Len(trade_log) >= 2
    /\ ~IsZero(TotalFees(trade_log, 1))
    /\ \E i \in 1..Len(trade_log) : Lt(trade_log[i].amount, Q(1))

\* C18: an opportunity whose cost exceeds the buy venue's balance is a no-op:
\* no balance changes, nothing is appended to the trade log, and the replay
\* moves on to the next opportunity of the list, so it is not taken up again.
C18_InsufficientBalanceIsANoOp ==
    [][(pc = "simulate"
          /\ Lt(balances[opportunities[opp_idx + 1].buy_exchange],
                TradeCost(opportunities[opp_idx + 1], fees)))
       => /\ balances' = balances
          /\ trade_log' = trade_log
          /\ last_trade'.called /\ ~last_trade'.success
          /\ last_trade'.opp = opportunities[opp_idx + 1]
          /\ opportunities' = opportunities
          /\ opp_idx' = opp_idx + 1
          /\ row' = row]_vars

C18_Witness ==
    /\ ReplayDone
    /\ last_trade.called
    /\ ~last_trade.success
    /\ trade_log # <<>>
    /\ Lt(balances[last_trade.opp.buy_exchange], TradeCost(last_trade.opp, fees))

-----------------------------------------------------------------------------
\* Properties of the two scanners on the same inputs.

Scanned == pc = "scanned"

\* C19: a pair whose buy_cost would be zero (zero price or zero amount) gives
\* no opportunity and no division by zero, in the live and in the replay
\* scanner: the scan returns, and no emitted opportunity has a zero buy_cost.
C19_ZeroBuyCostFailsClosed ==
    Scanned =>
        /\ ~scan_result.raised
        /\ \A i \in 1..Len(scan_result.opps) :
             LET o == scan_result.opps[i]
             IN  ~IsZero(BuyCost(o.buy_price, fees[o.buy_exchange], o.amount))

\* the replay ceiling balance / (ask * (1 + fee)) is at least
\* min(trade_amount, max_trade_amount) for every pair the scan sizes
CeilingDoesNotBind ==
    \A i \in 1..Len(Pairs(order_books)) :
        LET p == Pairs(order_books)[i]
        IN  PairEligible(order_books, p) =>
              /\ ~ReplayPairRaises(cfg, fees, order_books, balances, p)
              /\ Le(LiveAmount(cfg), MaxAmountUsd(fees, order_books, balances, p))

\* C20: with a replay ceiling that does not bind, the live scanner returns
\* what the replay scanner returns on the same snapshot, fees and
\* configuration: the same opportunities in the same order.
C20_LiveAndReplayScannersAgree ==
    (Scanned /\ scan_result.engine = "live" /\ CeilingDoesNotBind) =>
        LET r == ReplayScan(cfg, fees, order_books, balances)
        IN  /\ scan_result.raised = r.raised
            /\ scan_result.opps = r.opps

-----------------------------------------------------------------------------
(* The scanners on quotes a few cents apart, with positive trade sizes.     *)

\* bids and asks around 100
QuotePrices == {Price(99), Price(100), Frac(2001, 20), Price(101), Price(102)}

QuoteBooks ==
    { [bid |-> Price(99),      ask |-> Price(100)],
      [bid |-> Price(101),     ask |-> Price(102)],
      [bid |-> Frac(2001, 20), ask |-> Price(102)] }

QuoteConfigs ==
    { [trade_amount |-> t, max_trade_amount |-> m,
       min_profit_percent |-> mp, trade_currency |-> QuoteCurrency] :
         t \in {Frac(1, 2), Q(1)}, m \in {Q(1), Q(2)}, mp \in MinProfits }

InitQuotes ==
    /\ pc = "scan_input"
    /\ cfg \in QuoteConfigs
    /\ fees \in [Venues -> FeeValues]
    /\ order_books \in [Venues -> QuoteBooks]
    /\ balances \in [Venues -> {Q(50), Q(1000)}]
    /\ scan_result = NoScan
    /\ opportunities = <<>>
    /\ opp_idx = 0
    /\ run = NoRun
    /\ mon = NoMon
    /\ feed = <<>>
    /\ IdleFetch /\ IdleProcess /\ IdleReplay

SpecQuotes == InitQuotes /\ [][NextScan]_vars

\* the inputs of the worked example: taker fee 0.001 on both venues, amount
\* 1, min_profit_percent 0.5, and a replay ceiling that does not bind
ExampleInputs ==
    /\ Scanned
    /\ \A v \in Venues : fees[v] = Frac(1, 1000) /\ balances[v] = Q(1000)
    /\ LiveAmount(cfg) = Q(1)
    /\ cfg.min_profit_percent = Frac(1, 2)

\* venue a asks 100 and venue b bids the given price
ExampleBooks(a, b, bid) ==
    /\ a # b
    /\ order_books[a] = [bid |-> Price(99), ask |-> Price(100)]
    /\ order_books[b] = [bid |-> bid, ask |-> Price(102)]

\* a value in cents, rounded half up
Cents(x) == (x[1] * 200 + x[2]) \div (2 * x[2])

\* C21: with ask 100, bid 101, fee 0.001 on both venues, amount 1 and
\* min_profit_percent 0.5 the scanner emits exactly one opportunity, buying
\* at 100 and selling at 101, with buy_cost 100.1, sell_revenue 100.899 and
\* profit 0.799 (0.80 in cents); with the bid at 100.05 it returns nothing.
C21_WorkedExample ==
    ExampleInputs =>
      \A a, b \in Venues :
        /\ ExampleBooks(a, b, Price(101)) =>
             /\ ~scan_result.raised
             /\ Len(scan_result.opps) = 1
             /\ LET o == scan_result.opps[1]
                IN  /\ o.buy_exchange = a /\ o.sell_exchange = b
                    /\ o.buy_price = Price(100) /\ o.sell_price = Price(101)
                    /\ o.amount = Q(1)
                    /\ BuyCost(o.buy_price, fees[a], o.amount) = Frac(1001, 10)
                    /\ Add(o.profit, BuyCost(o.buy_price, fees[a], o.amount))
                         = Frac(100899, 1000)
                    /\ o.profit = Frac(799, 1000)
                    /\ Cents(o.profit) = 80
        /\ ExampleBooks(a, b, Frac(2001, 20)) =>
             /\ ~scan_result.raised
             /\ scan_result.opps = <<>>

C21_Witness ==
    /\ ExampleInputs
    /\ scan_result.engine = "live"
    /\ ExampleBooks(VenueOrder[1], VenueOrder[3], Price(101))
    /\ Len(scan_result.opps) = 1

C21_WitnessEmpty ==
    /\ ExampleInputs
    /\ scan_result.engine = "live"
    /\ ExampleBooks(VenueOrder[1], VenueOrder[3], Frac(2001, 20))
    /\ scan_result.opps = <<>>

\* the profit calculate_profit returns for buying on a at ask and selling on
\* b at bid, with the fees and the amount of the scan
ProfitAt(a, b, ask, bid) ==
    calculate_profit(ask, bid, fees[a], fees[b], LiveAmount(cfg)).profit

\* C22: with the fees and a positive amount fixed, a higher sell bid or a
\* lower buy ask never gives a smaller profit.
C22_ProfitMonotoneInTheSpread ==
    (Scanned /\ Lt(Q(0), LiveAmount(cfg))) =>
      \A a, b \in Venues : \A q \in QuotePrices :
        LET ask == order_books[a].ask
            bid == order_books[b].bid
        IN  /\ Le(bid, q) => Le(ProfitAt(a, b, ask, bid), ProfitAt(a, b, ask, q))
            /\ Le(q, ask) => Le(ProfitAt(a, b, ask, bid), ProfitAt(a, b, q, bid))
            /\ \A i \in 1..Len(scan_result.opps) :
                 LET o == scan_result.opps[i]
                 IN  (scan_result.engine = "live" /\ o.buy_exchange = a
                        /\ o.sell_exchange = b)
                     => o.profit = ProfitAt(a, b, ask, bid)

C22_Witness ==
    /\ Scanned
    /\ scan_result.engine = "live"
    /\ Len(scan_result.opps) = 1
    /\ LET o == scan_result.opps[1]
       IN  /\ Lt(o.profit, ProfitAt(o.buy_exchange, o.sell_exchange,
                                    o.buy_price, Price(102)))
           /\ Lt(o.profit, ProfitAt(o.buy_exchange, o.sell_exchange,
                                    Price(99), o.sell_price))

-----------------------------------------------------------------------------
\* Properties of the placement and cancellation calls of execute_trade.

\* C24: for each opportunity there is at most one buy placement call and at
\* most one sell placement call: a failed placement ends the opportunity and
\* is not submitted again, in execute_trade or later in the cycle.
C24_PlacementsAreNotRetried ==
    /\ InOpp =>
         /\ run.buy_calls <= 1
         /\ run.sell_calls <= 1
         /\ run.sell_calls = 1 => run.buy_placed
         /\ (BuyPlacementFailed \/ (SellPlacementFailed /\ pc # "cancel"))
              => OppDone
         /\ Cardinality(PlacedOf(opp_idx)) = run.buy_calls
    /\ \A k \in 1..Len(opportunities) : Cardinality(PlacedOf(k)) <= 1

C24_Witness ==
    /\ OppDone
    /\ opp_idx = 2
    /\ SellPlacementFailed
    /\ run.buy_calls = 1 /\ run.sell_calls = 1
    /\ \E i \in DoneOf(1) : cycle_log[i].outcome = "Failed"
    /\ Cardinality(PlacedOf(1)) = 1

\* C25: cancel_order is called only after a failed sell placement: whenever
\* both orders were placed no cancellation is issued, whatever the monitors
\* report, and the orders stay placed.
C25_CancelOnlyAfterSellFailure ==
    InOpp =>
        /\ run.cancel_calls > 0 => SellPlacementFailed
        /\ BothPlaced =>
             /\ run.cancel_calls = 0
             /\ pc \in {"mon_test", "mon_poll", "mon_sleep", "classify", "opp_done"}

C25_Witness ==
    /\ OppDone
    /\ BothPlaced
    /\ run.buy_cause = "timeout" /\ run.sell_cause = "closed"
    /\ run.outcome = "Failed"
    /\ run.cancel_calls = 0

C25_WitnessCanceled ==
    /\ OppDone
    /\ BothPlaced
    /\ run.buy_cause = "canceled"
    /\ run.cancel_calls = 0

-----------------------------------------------------------------------------
\* Properties of the statistics, of the trade log and of the balances of the
\* replay.

\* C23: deriving the statistics after the replay never raises, whatever the
\* trade log: none, one or several trades.
C23_MetricsNeverRaise ==
    metrics.called => ~metrics.raised

TimestampsOrdered ==
    \A i, j \in 1..Len(trade_log) :
        i <= j => trade_log[i].timestamp <= trade_log[j].timestamp

\* the record of the opportunity the replay is about to simulate, as the
\* log has to keep it
DueRecord ==
    LET o == opportunities[opp_idx + 1]
    IN  [timestamp |-> row, buy_exchange |-> o.buy_exchange,
         sell_exchange |-> o.sell_exchange, buy_price |-> o.buy_price,
         sell_price |-> o.sell_price, profit_percent |-> o.profit_percent,
         profit |-> o.profit, amount |-> o.amount]

\* C26: the trade log is append-only and ordered: a simulate_trade call that
\* returns True appends exactly one record, carrying the timestamp of the
\* row, any other step leaves the log as it is, and the timestamps of the
\* log never decrease.
C26_TradeLogAppendOnly ==
    /\ [](TimestampsOrdered /\ \A i \in 1..Len(trade_log) :
                                  trade_log[i].timestamp \in 1..row)
    /\ [][IF pc = "simulate" /\ last_trade'.success
          THEN trade_log' = Append(trade_log, DueRecord)
          ELSE trade_log' = trade_log]_vars

C26_Witness ==
    /\ Len(trade_log) = 3
    /\ trade_log[1].timestamp = 1
    /\ trade_log[2].timestamp = 2
    /\ trade_log[3].timestamp = 2
    /\ cfg.initial_balance = Q(100)
    /\ last_trade.success

C26_WitnessRefused ==
    /\ pc = "next_row"
    /\ last_trade.called /\ ~last_trade.success
    /\ last_trade.timestamp = row
    /\ Len(trade_log) = 1

\* C27: with a non-negative initial balance every venue's USD balance stays
\* >= 0 after every simulate_trade call, also when the opportunities of one
\* row share a buy venue; the BTC balances are never changed.
C27_BalancesNeverNegative ==
    /\ \A v \in DOMAIN balances : Le(Q(0), balances[v])
    /\ \A v \in DOMAIN base_balances : base_balances[v] = Q(0)

C27_Witness ==
    /\ pc = "next_row"
    /\ Len(opportunities) = 2
    /\ opportunities[1].buy_exchange = opportunities[2].buy_exchange
    /\ trade_log # <<>>
    /\ trade_log[Len(trade_log)].sell_exchange = opportunities[1].sell_exchange
    /\ trade_log[Len(trade_log)].timestamp = row
    /\ last_trade.called /\ ~last_trade.success
    /\ last_trade.opp = opportunities[2]
    /\ IsZero(balances[opportunities[1].buy_exchange])

RECURSIVE TotalProfit(_, _)
TotalProfit(log, i) ==
    IF i > Len(log) THEN Q(0) ELSE Add(log[i].profit, TotalProfit(log, i + 1))

\* C28: at every point of a replay the sum of the venues' USD balances is
\* the sum of the initial balances plus the 'profit' fields of the records
\* of the trade log so far.
C28_TotalIsInitialPlusLoggedProfit ==
    cfg \in ReplayConfigs =>
        TotalBalance = Add(InitialTotal, TotalProfit(trade_log, 1))

C28_Witness ==
    /\ pc = "simulate"
    /\ Len(trade_log) >= 2
    /\ \E v \in AllVenues : ~IsZero(fees[v])
    /\ \E i \in 1..Len(trade_log) :
         /\ ~IsZero(fees[trade_log[i].buy_exchange])
         /\ Lt(trade_log[i].amount, Q(1))

====
